---- MODULE Spec2Model ----
(***************************************************************************)
(* Model of scripts/pull_content.py (the documentation sync tool).         *)
(*                                                                         *)
(* Strings are sequences of one-character strings, so that fnmatch, the    *)
(* prefix tests and the path arithmetic of the script are computed         *)
(* character by character, as Python computes them.                       *)
(***************************************************************************)
EXTENDS Integers, Sequences, FiniteSets, TLC

(***************************************************************************)
(* String primitives (Python str methods used by the script).              *)
(***************************************************************************)

\* str.startswith
StartsWith(s, p) ==
    /\ Len(p) <= Len(s)
    /\ SubSeq(s, 1, Len(p)) = p

\* str.endswith
EndsWith(s, p) ==
    /\ Len(p) <= Len(s)
    /\ SubSeq(s, Len(s) - Len(p) + 1, Len(s)) = p

\* s[n:]
Drop(s, n) == SubSeq(s, n + 1, Len(s))

\* `sub in s`
Contains(s, sub) ==
    \E i \in 0..(Len(s) - Len(sub)) : SubSeq(s, i + 1, i + Len(sub)) = sub

\* `c in s` for one character
HasChar(s, c) == \E i \in 1..Len(s) : s[i] = c

RECURSIVE LStrip(_, _)
\* str.lstrip(c) for one character c
LStrip(s, c) ==
    IF s # <<>> /\ Head(s) = c THEN LStrip(Tail(s), c) ELSE s

RECURSIVE RStrip(_, _)
\* str.rstrip(c) for one character c
RStrip(s, c) ==
    IF s # <<>> /\ s[Len(s)] = c THEN RStrip(SubSeq(s, 1, Len(s) - 1), c) ELSE s

RECURSIVE SplitAcc(_, _, _)
\* str.split(sep): left to right, non-overlapping; acc is the piece being read
SplitAcc(s, sep, acc) ==
    IF s = <<>> THEN <<acc>>
    ELSE IF StartsWith(s, sep) THEN <<acc>> \o SplitAcc(Drop(s, Len(sep)), sep, <<>>)
    ELSE SplitAcc(Tail(s), sep, Append(acc, Head(s)))

Split(s, sep) == SplitAcc(s, sep, <<>>)

RECURSIVE Join(_, _)
\* sep.join(parts)
Join(parts, sep) ==
    IF parts = <<>> THEN <<>>
    ELSE IF Len(parts) = 1 THEN parts[1]
    ELSE parts[1] \o sep \o Join(Tail(parts), sep)

\* str.replace(old, new)
Replace(s, old, new) == Join(Split(s, old), new)

UPPERCASE ==
    <<"A", "B", "C", "D", "E", "F", "G", "H", "I", "J", "K", "L", "M",
      "N", "O", "P", "Q", "R", "S", "T", "U", "V", "W", "X", "Y", "Z">>
LOWERCASE ==
    <<"a", "b", "c", "d", "e", "f", "g", "h", "i", "j", "k", "l", "m",
      "n", "o", "p", "q", "r", "s", "t", "u", "v", "w", "x", "y", "z">>

\* str.lower() of one character
LowerChar(c) ==
    IF \E i \in 1..Len(UPPERCASE) : UPPERCASE[i] = c
    THEN LOWERCASE[CHOOSE i \in 1..Len(UPPERCASE) : UPPERCASE[i] = c]
    ELSE c

Lower(s) == [i \in 1..Len(s) |-> LowerChar(s[i])]

SLASH == <<"/">>
STARSTAR == <<"*", "*">>
STAR == <<"*">>

(***************************************************************************)
(* fnmatch.fnmatch(name, pat) on POSIX: `*` matches any run of characters  *)
(* (the separator included), `?` one character, anything else itself.      *)
(* Bracket classes are not used by the patterns of the model.              *)
(***************************************************************************)
RECURSIVE fnmatch(_, _)
fnmatch(s, p) ==
    IF p = <<>> THEN s = <<>>
    ELSE IF Head(p) = "*"
         THEN fnmatch(s, Tail(p)) \/ (s # <<>> /\ fnmatch(Tail(s), p))
         ELSE /\ s # <<>>
              /\ (Head(p) = "?" \/ Head(p) = Head(s))
              /\ fnmatch(Tail(s), Tail(p))

(***************************************************************************)
(* pathlib.PurePosixPath                                                   *)
(***************************************************************************)

\* The components of a path: empty and "." components are dropped.
Parts(s) == SelectSeq(Split(s, SLASH), LAMBDA c : c # <<>> /\ c # <<".">>)

\* str(Path(s)): the normalised text of a path (a leading "/" is kept)
PathStr(s) ==
    IF s # <<>> /\ Head(s) = "/" THEN SLASH \o Join(Parts(s), SLASH)
    ELSE IF Parts(s) = <<>> THEN <<".">>
    ELSE Join(Parts(s), SLASH)

\* Path.name
PathName(s) ==
    IF Parts(s) = <<>> THEN <<>> ELSE Parts(s)[Len(Parts(s))]

\* a / b  (b relative)
PathJoin(a, b) ==
    IF b # <<>> /\ Head(b) = "/" THEN PathStr(b)
    ELSE IF Parts(a) = <<>> /\ (a = <<>> \/ Head(a) # "/") THEN PathStr(b)
    ELSE PathStr(a \o SLASH \o b)

\* the file a path names once the operating system has followed its ".."
\* components (relative paths are taken from the working directory)
RECURSIVE ResolveAcc(_, _, _)
ResolveAcc(parts, acc, absolute) ==
    IF parts = <<>> THEN acc
    ELSE IF Head(parts) = <<".", ".">>
         THEN IF acc # <<>> /\ acc[Len(acc)] # <<".", ".">>
              THEN ResolveAcc(Tail(parts), SubSeq(acc, 1, Len(acc) - 1), absolute)
              ELSE IF absolute THEN ResolveAcc(Tail(parts), acc, absolute)
              ELSE ResolveAcc(Tail(parts), Append(acc, Head(parts)), absolute)
         ELSE ResolveAcc(Tail(parts), Append(acc, Head(parts)), absolute)

Resolve(s) ==
    LET absolute == s # <<>> /\ Head(s) = "/"
    IN  (IF absolute THEN SLASH ELSE <<>>) \o Join(ResolveAcc(Parts(s), <<>>, absolute), SLASH)

\* Path.parent
PathParent(s) ==
    IF Len(Parts(s)) <= 1
    THEN (IF s # <<>> /\ Head(s) = "/" THEN SLASH ELSE <<".">>)
    ELSE (IF Head(s) = "/" THEN SLASH ELSE <<>>)
         \o Join(SubSeq(Parts(s), 1, Len(Parts(s)) - 1), SLASH)

\* Path.suffix: the text from the last "." of the name, when that "." is
\* neither the first nor the last character of the name
RECURSIVE LastDot(_, _)
LastDot(n, i) ==
    IF i = 0 THEN 0 ELSE IF n[i] = "." THEN i ELSE LastDot(n, i - 1)

PathSuffix(s) ==
    LET n == PathName(s)
        i == LastDot(n, Len(n))
    IN  IF i > 1 /\ i < Len(n) THEN SubSeq(n, i, Len(n)) ELSE <<>>

\* Path.with_suffix(suffix)
WithSuffix(s, suffix) ==
    LET old == PathSuffix(s)
    IN  SubSeq(s, 1, Len(s) - Len(old)) \o suffix

YML == <<".", "y", "m", "l">>
YAML == <<".", "y", "a", "m", "l">>
MD == <<".", "m", "d">>

is_yaml_file(file_path) == Lower(PathSuffix(file_path)) \in {YML, YAML}

(***************************************************************************)
(* should_exclude_file                                                     *)
(***************************************************************************)
should_exclude_file(file_path, exclude_patterns) ==
    \E i \in 1..Len(exclude_patterns) :
        \/ fnmatch(PathName(file_path), exclude_patterns[i])
        \/ fnmatch(PathStr(file_path), exclude_patterns[i])

(***************************************************************************)
(* match_file_to_pattern.  file_path is a Path (its text is normalised),   *)
(* source is pattern_config["source"].                                     *)
(***************************************************************************)
BACKSLASH == <<"\\">>

\* str(file_path).replace("\\", "/")
SlashNorm(s) == Replace(s, BACKSLASH, SLASH)

\* the "**" branch: one "**" splits the pattern in prefix and suffix,
\* several "**" degrade to a single-wildcard match
match_recursive(file_path_str, name, source_pattern) ==
    LET pattern_parts == Split(source_pattern, STARSTAR)
    IN  IF Len(pattern_parts) = 2
        THEN LET prefix == RStrip(pattern_parts[1], "/")
                 suffix == LStrip(pattern_parts[2], "/")
             IN  IF prefix = <<>>
                 THEN \/ fnmatch(file_path_str, STAR \o suffix)
                      \/ fnmatch(name, suffix)
                 ELSE IF StartsWith(file_path_str, prefix)
                 THEN LET remaining == LStrip(Drop(file_path_str, Len(prefix)), "/")
                      IN  \/ fnmatch(remaining, suffix)
                          \/ fnmatch(remaining, <<"*", "/">> \o suffix)
                          \/ fnmatch(remaining, <<"*", "*", "/">> \o suffix)
                 ELSE FALSE
        ELSE fnmatch(file_path_str, Replace(source_pattern, STARSTAR, STAR))

\* the simple glob branch (wildcards, no "**")
match_simple_glob(file_path_str, source_pattern) ==
    fnmatch(file_path_str, source_pattern)

\* a matcher without the directory-pattern alternative
match_exact_equal_only(file_path_str, name, source_pattern) ==
    \/ file_path_str = source_pattern
    \/ name = source_pattern

\* the branch of a pattern without wildcards
match_exact(file_path_str, name, source_pattern) ==
    \/ file_path_str = source_pattern
    \/ name = source_pattern
    \/ /\ EndsWith(source_pattern, SLASH)
       /\ StartsWith(file_path_str, RStrip(source_pattern, "/"))

match_file_to_pattern(file_path, source, exclude_patterns) ==
    LET file_path_str == SlashNorm(PathStr(file_path))
        source_pattern == SlashNorm(source)
        name == PathName(file_path)
    IN  IF should_exclude_file(file_path, exclude_patterns) THEN FALSE
        ELSE IF HasChar(source_pattern, "*") \/ HasChar(source_pattern, "?")
        THEN IF Contains(source_pattern, STARSTAR)
             THEN match_recursive(file_path_str, name, source_pattern)
             ELSE match_simple_glob(file_path_str, source_pattern)
        ELSE match_exact(file_path_str, name, source_pattern)

(***************************************************************************)
(* The file system.  A source tree is the set of its regular files, named  *)
(* relative to the repository root (git keeps no empty directory).  The    *)
(* destination tree maps each file path to its content.                    *)
(***************************************************************************)

\* Path.is_dir() in a tree of files; "." is the root
IsDirIn(files, d) ==
    \/ d = <<".">>
    \/ \E f \in files : StartsWith(f, d \o SLASH)

\* Path.exists()
ExistsIn(files, p) == p \in files \/ IsDirIn(files, p)

\* file_path.relative_to(base): the text of p below directory d
RelativeTo(p, d) ==
    IF d = <<".">> THEN p ELSE Drop(p, Len(d) + 1)

\* is p a file below directory d
Below(p, d) == d = <<".">> \/ StartsWith(p, d \o SLASH)

RECURSIVE GlobParts(_, _)
\* pathlib's component-wise matching of a relative path against a pattern:
\* a "**" component spans any number of directories, any other component
\* is matched with fnmatch against one component
GlobParts(parts, pat) ==
    IF pat = <<>> THEN parts = <<>>
    ELSE IF Head(pat) = STARSTAR
         THEN GlobParts(parts, Tail(pat))
              \/ (Len(parts) > 1 /\ GlobParts(Tail(parts), pat))
         ELSE /\ parts # <<>>
              /\ fnmatch(Head(parts), Head(pat))
              /\ GlobParts(Tail(parts), Tail(pat))

\* Path.glob(pattern) restricted to files: f is a file of parent_dir matched
PathGlob(f, parent_dir, pattern) ==
    /\ Below(f, parent_dir)
    /\ GlobParts(Parts(RelativeTo(f, parent_dir)), Parts(pattern))

\* Path.rglob(pattern) = glob("**/" + pattern)
PathRGlob(f, parent_dir, pattern) ==
    /\ Below(f, parent_dir)
    /\ GlobParts(Parts(RelativeTo(f, parent_dir)), <<STARSTAR>> \o Parts(pattern))

\* str.partition(sep): <<before, after>> of the first occurrence
RECURSIVE PartitionAcc(_, _, _)
PartitionAcc(s, sep, acc) ==
    IF s = <<>> THEN <<acc, <<>>>>
    ELSE IF StartsWith(s, sep) THEN <<acc, Drop(s, Len(sep))>>
    ELSE PartitionAcc(Tail(s), sep, Append(acc, Head(s)))

Partition(s, sep) == PartitionAcc(s, sep, <<>>)

\* the destination tree with one file written (created or replaced)
DocsWrite(docs_tree, path, content) ==
    [p \in (DOMAIN docs_tree) \cup {path} |->
        IF p = path THEN content ELSE docs_tree[p]]

(***************************************************************************)
(* Copying one file.  A copy state holds the destination tree, the count   *)
(* of the function (copied_count), the log of the files written, the       *)
(* files whose copy failed, and whether an exception left the function.    *)
(***************************************************************************)
DOCS == <<"d", "o", "c", "s">>
TEMP_DIR == <<".", "t", "e", "m", "p", "_", "r", "e", "p", "o", "s">>
ENGINEERING == <<"e", "n", "g", "i", "n", "e", "e", "r", "i", "n", "g">>
OPERATIONS == <<"o", "p", "e", "r", "a", "t", "i", "o", "n", "s">>

\* temp_path / repo_name
RepoPath(repo) == PathJoin(TEMP_DIR, IF repo = 1 THEN ENGINEERING ELSE OPERATIONS)

\* write_yaml_markdown: the wrapper's content (title, citation, fenced text)
YamlMarkdown(repo, source_file, relative_source) ==
    [kind |-> "wrapper", title |-> PathName(source_file),
     source |-> relative_source, body |-> <<repo, source_file>>]

\* shutil.copy2: the bytes of the source file
RawCopy(repo, source_file) ==
    [kind |-> "raw", body |-> <<repo, source_file>>]

\* dest_file.with_suffix(dest_file.suffix + ".md")
DestMd(dest_file) == WithSuffix(dest_file, PathSuffix(dest_file) \o MD)

\* where shutil.copy2 writes: into dest when dest is an existing directory
Copy2Target(docs_tree, source_file, dest_file) ==
    IF IsDirIn(DOMAIN docs_tree, dest_file)
    THEN PathJoin(dest_file, PathName(source_file))
    ELSE dest_file

\* the YAML branch and the copy branch of the three copy loops.  e is
\* [pass, src, cite, dest_file, dest_base]; bad are the files whose read or
\* copy raises OSError; a source that is a directory cannot be copied, and
\* neither can a file onto itself (SameFileError).  The message of a
\* success names the target relative to docs_path: for a target that is not
\* below it relative_to raises ValueError after the file has been written,
\* so the file is reported as failed and not counted
CopyOne(st, repo, e, tree, bad) ==
    LET yaml == is_yaml_file(e.src)
        readable == e.src \in tree /\ e.src \notin bad
        target == IF yaml THEN DestMd(e.dest_file)
                  ELSE Copy2Target(st.docs, e.src, e.dest_file)
        same == ~yaml /\ Resolve(PathJoin(RepoPath(repo), e.src)) = Resolve(target)
        ok == readable /\ ~same /\ (yaml => ~IsDirIn(DOMAIN st.docs, target))
        content == IF yaml THEN YamlMarkdown(repo, e.src, e.cite)
                   ELSE RawCopy(repo, e.src)
        shown == e.dest_file = DOCS \/ StartsWith(e.dest_file, DOCS \o SLASH)
    IN  IF ok
        THEN [st EXCEPT !.docs = DocsWrite(st.docs, target, content),
                        !.count = IF shown THEN st.count + 1 ELSE st.count,
                        !.failed = IF shown THEN st.failed ELSE st.failed \cup {e.src},
                        !.written = Append(st.written,
                            [repo |-> repo, pass |-> e.pass, src |-> e.src,
                             dest_base |-> e.dest_base, dest_file |-> e.dest_file,
                             target |-> target, kind |-> content.kind])]
        ELSE [st EXCEPT !.failed = st.failed \cup {e.src}]

\* the state a copy function starts from
CopyStart(docs_tree) ==
    [docs |-> docs_tree, count |-> 0, written |-> <<>>, failed |-> {},
     crashed |-> FALSE, matched |-> 0, ran |-> TRUE]


\* the copy loop of copy_changed_files and of copy_files_by_pattern
RECURSIVE CopyAll(_, _, _, _, _, _)
CopyAll(st, repo, entries, tree, bad, i) ==
    IF i > Len(entries) THEN st
    ELSE CopyAll(CopyOne(st, repo, entries[i], tree, bad), repo, entries, tree, bad, i + 1)

(***************************************************************************)
(* copy_changed_files: which files of the manifest are copied, and where   *)
(***************************************************************************)
COMMA == <<",">>

\* str.strip() of blanks
Strip(s) == LStrip(RStrip(s, " "), " ")

\* [f.strip() for f in changed_files_list.split(",") if f.strip()]
ParseChangedFiles(changed_files_list) ==
    LET raw == Split(changed_files_list, COMMA)
        stripped == [i \in 1..Len(raw) |-> Strip(raw[i])]
    IN  SelectSeq(stripped, LAMBDA f : f # <<>>)

\* the index of the first pattern the file matches, 0 when none does
RECURSIVE FirstMatch(_, _, _, _)
FirstMatch(relative_path, patterns, exclude_patterns, i) ==
    IF i > Len(patterns) THEN 0
    ELSE IF match_file_to_pattern(relative_path, patterns[i].source, exclude_patterns)
         THEN i
         ELSE FirstMatch(relative_path, patterns, exclude_patterns, i + 1)

\* docs_path / dest_base / relative_path, or docs_path / dest_base
ChangedDest(dest_base, relative_path) ==
    IF EndsWith(dest_base, SLASH) \/ dest_base = <<>>
    THEN PathJoin(PathJoin(DOCS, dest_base), relative_path)
    ELSE PathJoin(DOCS, dest_base)

\* a selection that stops at the first listed path missing from the tree
RECURSIVE MatchedFiles_StopAtMissing(_, _, _, _, _)
MatchedFiles_StopAtMissing(changed_files, tree, patterns, exclude_patterns, i) ==
    IF i > Len(changed_files) THEN <<>>
    ELSE LET changed_file_normalized == SlashNorm(changed_files[i])
             relative_path == PathStr(changed_file_normalized)
             k == FirstMatch(relative_path, patterns, exclude_patterns, 1)
             rest == MatchedFiles_StopAtMissing(changed_files, tree, patterns,
                                                exclude_patterns, i + 1)
         IN  IF ~ExistsIn(tree, relative_path) THEN <<>>
             ELSE IF k = 0 THEN rest
             ELSE <<[pass |-> "changed", src |-> relative_path,
                     cite |-> changed_file_normalized,
                     dest_file |-> ChangedDest(patterns[k].destination,
                                               changed_file_normalized),
                     dest_base |-> patterns[k].destination]>> \o rest

\* matched_files: the files of the manifest that exist and match a pattern,
\* each with the destination of the first pattern it matches
RECURSIVE MatchedFiles(_, _, _, _, _)
MatchedFiles(changed_files, tree, patterns, exclude_patterns, i) ==
    IF i > Len(changed_files) THEN <<>>
    ELSE LET changed_file_normalized == SlashNorm(changed_files[i])
             relative_path == PathStr(changed_file_normalized)
             k == FirstMatch(relative_path, patterns, exclude_patterns, 1)
             rest == MatchedFiles(changed_files, tree, patterns, exclude_patterns, i + 1)
         IN  IF ~ExistsIn(tree, relative_path) \/ k = 0 THEN rest
             ELSE <<[pass |-> "changed", src |-> relative_path,
                     cite |-> changed_file_normalized,
                     dest_file |-> ChangedDest(patterns[k].destination,
                                               changed_file_normalized),
                     dest_base |-> patterns[k].destination]>> \o rest

ChangedPlan(tree, changed_files_list, patterns, exclude_patterns) ==
    MatchedFiles(ParseChangedFiles(changed_files_list), tree, patterns, exclude_patterns, 1)

(***************************************************************************)
(* copy_files_by_pattern: which files each pattern copies, and where.      *)
(* order lists the files in the order in which the directory walk yields   *)
(* them.                                                                   *)
(***************************************************************************)

\* not should_exclude_file(file_path, ...): the walk tests the path below
\* the working directory, source_repo_path included
WalkKeeps(repo, f, exclude_patterns) ==
    ~should_exclude_file(PathJoin(RepoPath(repo), f), exclude_patterns)

\* matching_files after the "Find all matching files" part of one iteration.
\* prev is matching_files before it: [bound, files, skip]; skip is the
\* `continue` of a missing source directory
FindMatching(prev, pattern_config, repo, tree, order, exclude_patterns) ==
    LET source_pattern == pattern_config.source
        source_path_obj == PathStr(source_pattern)
        files(Test(_)) ==
            SelectSeq(order, LAMBDA f : f \in tree /\ Test(f)
                                        /\ WalkKeeps(repo, f, exclude_patterns))
        found(fs) == [bound |-> TRUE, files |-> fs, skip |-> FALSE]
        missing == [bound |-> TRUE, files |-> <<>>, skip |-> TRUE]
    IN  IF HasChar(source_pattern, "*") \/ HasChar(source_pattern, "?")
        THEN IF Contains(source_pattern, STARSTAR)
             THEN LET pr == Partition(source_pattern, STARSTAR)
                      base_dir == RStrip(pr[1], "/")
                      suffix == LStrip(pr[2], "/")
                      pattern_name == IF suffix = <<>> THEN STAR ELSE suffix
                      parent_dir == IF base_dir = <<>> THEN <<".">> ELSE PathStr(base_dir)
                  IN  IF ~ExistsIn(tree, parent_dir) THEN missing
                      ELSE found(files(LAMBDA f : PathRGlob(f, parent_dir, pattern_name)))
             ELSE LET parent_dir == PathParent(source_path_obj)
                      pattern_name == PathName(source_path_obj)
                  IN  IF ~ExistsIn(tree, parent_dir) THEN missing
                      ELSE IF pattern_config.recursive
                      THEN found(files(LAMBDA f : PathRGlob(f, parent_dir, pattern_name)))
                      ELSE found(files(LAMBDA f : PathGlob(f, parent_dir, pattern_name)))
        ELSE IF ExistsIn(tree, source_path_obj)
             THEN IF source_path_obj \in tree
                  THEN found(files(LAMBDA f : f = source_path_obj))
                  ELSE found(files(LAMBDA f : Below(f, source_path_obj)))
             ELSE [prev EXCEPT !.skip = FALSE]

\* a destination that keeps the relative path for every rule
PatternDest_KeepPath(pattern_config, tree, source_file) ==
    IF EndsWith(pattern_config.destination, SLASH) \/ pattern_config.destination = <<>>
    THEN PathJoin(PathJoin(DOCS, pattern_config.destination), source_file)
    ELSE PathJoin(DOCS, pattern_config.destination)

\* the destination of one matched file
PatternDest(pattern_config, tree, source_file) ==
    LET dest_base == pattern_config.destination
        source_pattern == pattern_config.source
    IN  IF EndsWith(dest_base, SLASH) \/ dest_base = <<>>
        THEN IF EndsWith(source_pattern, SLASH)
                \/ IsDirIn(tree, PathStr(source_pattern))
             THEN PathJoin(PathJoin(DOCS, dest_base), source_file)
             ELSE PathJoin(PathJoin(DOCS, dest_base), PathName(source_file))
        ELSE PathJoin(DOCS, dest_base)

\* the copies of one iteration of the loop over the patterns
PatternEntries(matching_files, pattern_config, tree) ==
    [i \in 1..Len(matching_files) |->
        [pass |-> "pattern", src |-> matching_files[i], cite |-> matching_files[i],
         dest_file |-> PatternDest(pattern_config, tree, matching_files[i]),
         dest_base |-> pattern_config.destination]]

\* the loop over the patterns; mf is matching_files as the previous
\* iteration left it (unbound before the first assignment).  Reading the
\* unbound matching_files raises UnboundLocalError
RECURSIVE PatternLoop(_, _, _, _, _, _, _, _)
PatternLoop(entries, mf, patterns, repo, tree, order, exclude_patterns, i) ==
    IF i > Len(patterns) THEN [entries |-> entries, crashed |-> FALSE]
    ELSE LET now == FindMatching(mf, patterns[i], repo, tree, order, exclude_patterns)
         IN  IF now.skip
             THEN PatternLoop(entries, now, patterns, repo, tree, order,
                              exclude_patterns, i + 1)
             ELSE IF ~now.bound
             THEN [entries |-> entries, crashed |-> TRUE]
             ELSE PatternLoop(entries \o PatternEntries(now.files, patterns[i], tree),
                              now, patterns, repo, tree, order, exclude_patterns, i + 1)

PatternPlan(repo, tree, patterns, exclude_patterns, order) ==
    PatternLoop(<<>>, [bound |-> FALSE, files |-> <<>>, skip |-> FALSE],
                patterns, repo, tree, order, exclude_patterns, 1)

(***************************************************************************)
(* copy_files (static mapping): no exclusion test, no YAML rendering, and  *)
(* an exception of shutil.copy2 is not caught                              *)
(***************************************************************************)
RECURSIVE StaticLoop(_, _, _, _, _, _)
StaticLoop(st, file_mapping, repo, tree, bad, i) ==
    IF i > Len(file_mapping) THEN st
    ELSE LET source_path == PathStr(file_mapping[i].source)
             dest_file == PathJoin(DOCS, file_mapping[i].destination)
             target == Copy2Target(st.docs, source_path, dest_file)
         IN  IF ~ExistsIn(tree, source_path)
             THEN StaticLoop(st, file_mapping, repo, tree, bad, i + 1)
             ELSE IF source_path \notin tree \/ source_path \in bad
             THEN [st EXCEPT !.crashed = TRUE, !.failed = st.failed \cup {source_path}]
             ELSE StaticLoop(
                    [st EXCEPT !.docs = DocsWrite(st.docs, target, RawCopy(repo, source_path)),
                               !.count = st.count + 1,
                               !.written = Append(st.written,
                                   [repo |-> repo, pass |-> "static", src |-> source_path,
                                    dest_base |-> file_mapping[i].destination,
                                    dest_file |-> dest_file,
                                    target |-> target, kind |-> "raw"])],
                    file_mapping, repo, tree, bad, i + 1)

copy_files(docs_tree, repo, tree, file_mapping, bad) ==
    StaticLoop(CopyStart(docs_tree), file_mapping, repo, tree, bad, 1)

(***************************************************************************)
(* The texts the inputs are drawn from: file paths (F_), rule sources      *)
(* (S_), rule destinations (D_), exclusion patterns (X_), path components  *)
(* (N_), files already in the destination tree (G_), trigger identifiers   *)
(* (TR_) and the repository names the script looks for in them (K_).       *)
(***************************************************************************)
F_docs_a_b_md == <<"d", "o", "c", "s", "/", "a", "/", "b", ".", "m", "d">>
F_docs_readme_txt == <<"d", "o", "c", "s", "/", "r", "e", "a", "d", "m", "e", ".", "t", "x", "t">>
F_docs_c_md == <<"d", "o", "c", "s", "/", "c", ".", "m", "d">>
F_docsx_a_md == <<"d", "o", "c", "s", "x", "/", "a", ".", "m", "d">>
F_events_order_yaml == <<"e", "v", "e", "n", "t", "s", "/", "o", "r", "d", "e", "r", ".", "y", "a", "m", "l">>
F_README_md == <<"R", "E", "A", "D", "M", "E", ".", "m", "d">>
F_gone_md == <<"g", "o", "n", "e", ".", "m", "d">>
S_docs_rec_md == <<"d", "o", "c", "s", "/", "*", "*", "/", "*", ".", "m", "d">>
S_docs_star_md == <<"d", "o", "c", "s", "/", "*", ".", "m", "d">>
S_rec_md == <<"*", "*", "/", "*", ".", "m", "d">>
S_docs_dir == <<"d", "o", "c", "s", "/">>
S_star_yaml == <<"*", ".", "y", "a", "m", "l">>
S_docs_rec_a_md == <<"d", "o", "c", "s", "/", "*", "*", "/", "a", "*", ".", "m", "d">>
S_star_md == <<"*", ".", "m", "d">>
S_multi_rec == <<"d", "o", "c", "s", "/", "*", "*", "/", "a", "/", "*", "*", "/", "*", ".", "m", "d">>
S_docs_q_md == <<"d", "o", "c", "s", "/", "?", ".", "m", "d">>
S_a_md == <<"a", ".", "m", "d">>
D_guides == <<"g", "u", "i", "d", "e", "s", "/">>
D_api == <<"a", "p", "i", "/">>
D_index_md == <<"g", "u", "i", "d", "e", "s", "/", "i", "n", "d", "e", "x", ".", "m", "d">>
D_api_order_yaml == <<"a", "p", "i", "/", "o", "r", "d", "e", "r", ".", "y", "a", "m", "l">>
D_order_yaml == <<"g", "u", "i", "d", "e", "s", "/", "o", "r", "d", "e", "r", ".", "y", "a", "m", "l">>
X_txt == <<"*", ".", "t", "x", "t">>
X_docs_a == <<"d", "o", "c", "s", "/", "a", "/", "*">>
N_a_md == <<"a", ".", "m", "d">>
N_b_md == <<"b", ".", "m", "d">>
N_readme_txt == <<"r", "e", "a", "d", "m", "e", ".", "t", "x", "t">>
N_docs == <<"d", "o", "c", "s">>
N_docsx == <<"d", "o", "c", "s", "x">>
N_a == <<"a">>
P_docs_bs_c_md == <<"d", "o", "c", "s", "\\", "c", ".", "m", "d">>
G_old_yaml == <<"d", "o", "c", "s", "/", "g", "u", "i", "d", "e", "s", "/", "o", "l", "d", ".", "y", "a", "m", "l">>
TR_messaging_core == <<"a", "c", "m", "e", "/", "m", "e", "s", "s", "a", "g", "i", "n", "g", "-", "c", "o", "r", "e">>
TR_messaging_core_us == <<"a", "c", "m", "e", "/", "m", "e", "s", "s", "a", "g", "i", "n", "g", "_", "c", "o", "r", "e">>
TR_virtual_golf == <<"a", "c", "m", "e", "/", "v", "i", "r", "t", "u", "a", "l", "-", "g", "o", "l", "f", "-", "g", "a", "m", "e", "-", "a", "p", "i">>
TR_other == <<"a", "c", "m", "e", "/", "o", "t", "h", "e", "r">>
SHA == <<"a", "b", "c", "1", "2", "3", "4">>
K_messaging_core == <<"m", "e", "s", "s", "a", "g", "i", "n", "g", "-", "c", "o", "r", "e">>
K_messaging_core_us == <<"m", "e", "s", "s", "a", "g", "i", "n", "g", "_", "c", "o", "r", "e">>
K_virtual_golf == <<"v", "i", "r", "t", "u", "a", "l", "-", "g", "o", "l", "f", "-", "g", "a", "m", "e", "-", "a", "p", "i">>
K_virtual_golf_us == <<"v", "i", "r", "t", "u", "a", "l", "_", "g", "o", "l", "f", "_", "g", "a", "m", "e", "_", "a", "p", "i">>

Rule(s, d, r) == [source |-> s, destination |-> d, recursive |-> r]
Mapping(s, d) == [source |-> s, destination |-> d]

(***************************************************************************)
(* Bounds of the model and the sets the inputs are drawn from.             *)
(***************************************************************************)
MaxManifest == 2    \* entries of the changed-file manifest
MaxIOFail == 1      \* source files whose copy fails in one pass
MaxDepth == 2       \* directories above a candidate path of the matcher

Repos == {1, 2}     \* 1: messaging-core (engineering), 2: virtual-golf-game-api (operations)

\* the subsets of S with at most n elements
SubsetsUpTo(S, n) == {T \in SUBSET S : Cardinality(T) <= n}

\* the files of the source repositories, in the order of a directory walk
AllFiles ==
    <<F_README_md, F_docs_a_b_md, F_docs_c_md, F_docs_readme_txt,
      F_docsx_a_md, F_events_order_yaml>>

Reverse(q) == [i \in 1..Len(q) |-> q[Len(q) + 1 - i]]

WalkOrders == {AllFiles, Reverse(AllFiles)}

Trees(repo) ==
    IF repo = 1
    THEN {{F_docs_a_b_md, F_docs_readme_txt},
          {F_README_md, F_docs_a_b_md, F_docs_c_md, F_docs_readme_txt,
           F_docsx_a_md, F_events_order_yaml}}
    ELSE {{F_README_md, F_events_order_yaml}}

\* <repo>_patterns of config.json; <<>> is a missing or empty list
PatternOptions(repo) ==
    IF repo = 1
    THEN {<<>>,
          <<Rule(S_docs_rec_md, D_guides, FALSE)>>,
          <<Rule(S_docs_star_md, D_guides, FALSE), Rule(S_star_yaml, D_api, TRUE)>>,
          <<Rule(S_docs_dir, <<>>, FALSE)>>,
          <<Rule(S_docs_rec_md, D_guides, FALSE), Rule(F_README_md, D_index_md, FALSE)>>,
          <<Rule(F_events_order_yaml, D_order_yaml, FALSE)>>}
    ELSE {<<>>, <<Rule(S_rec_md, D_guides, FALSE)>>}

\* <repo>_paths of config.json, in the order of the dictionary
PathOptions(repo) ==
    IF repo = 1
    THEN {<<>>,
          <<Mapping(F_events_order_yaml, D_api_order_yaml), Mapping(F_docs_readme_txt, D_index_md)>>,
          <<Mapping(N_docs, D_guides)>>}
    ELSE {<<>>, <<Mapping(F_events_order_yaml, D_api_order_yaml)>>}

\* exclude_patterns of config.json
ExcludeOptions == {<<>>, <<X_txt, X_docs_a>>}

\* the files whose read or copy may fail
FailCandidates == {F_docs_a_b_md, F_events_order_yaml, F_README_md}

IOFailures(tree) == SubsetsUpTo(tree \cap FailCandidates, MaxIOFail)

\* the paths a manifest names, in the order in which it names them
ManifestPaths == <<F_gone_md, F_docs_a_b_md, F_docs_readme_txt, F_events_order_yaml>>

\* TRIGGER_CHANGED_FILES: at most MaxManifest of the paths, joined by commas
Manifests ==
    {Join(SelectSeq(ManifestPaths, LAMBDA f : f \in T), COMMA) :
        T \in SubsetsUpTo({ManifestPaths[i] : i \in 1..Len(ManifestPaths)}, MaxManifest) \ {{}}}

Env(r, c, f) == [trigger_repo |-> r, trigger_commit |-> c, trigger_changed_files |-> f]

\* the environments of a run: a scheduled run, a dispatch of either
\* repository with its revision and manifest, and incomplete dispatches
Envs ==
    {Env(<<>>, <<>>, <<>>)}
    \cup {Env(TR_messaging_core, SHA, f) : f \in Manifests}
    \cup {Env(TR_virtual_golf, SHA, F_events_order_yaml \o COMMA \o F_gone_md)}
    \cup {Env(TR_messaging_core_us, SHA, F_docs_a_b_md),
          Env(TR_other, SHA, F_docs_a_b_md),
          Env(TR_messaging_core, <<>>, F_docs_a_b_md),
          Env(TR_messaging_core, SHA, <<>>)}

StaleContent == [kind |-> "stale"]

\* the destination tree before the run: empty, or with a raw YAML file
\* left by an earlier run
InitialDocs == {[p \in T |-> StaleContent] : T \in {{}, {G_old_yaml}}}

(***************************************************************************)
(* The two passes that select files: the selection, then the copy loop.    *)
(***************************************************************************)
copy_changed_files(docs_tree, repo, tree, changed_files_list, patterns, exclude_patterns, bad) ==
    LET matched_files == ChangedPlan(tree, changed_files_list, patterns, exclude_patterns)
    IN  [CopyAll(CopyStart(docs_tree), repo, matched_files, tree, bad, 1)
            EXCEPT !.matched = Len(matched_files)]

copy_files_by_pattern(docs_tree, repo, tree, patterns, exclude_patterns, order, bad) ==
    LET plan == PatternPlan(repo, tree, patterns, exclude_patterns, order)
    IN  [CopyAll(CopyStart(docs_tree), repo, plan.entries, tree, bad, 1)
            EXCEPT !.crashed = plan.crashed]

(***************************************************************************)
(* The state of one run of main().                                         *)
(***************************************************************************)
VARIABLES
    pc,                 \* the position of main()
    env,                \* TRIGGER_REPOSITORY, TRIGGER_COMMIT, TRIGGER_CHANGED_FILES
    exclude_patterns,   \* config["exclude_patterns"]
    repos_to_pull,      \* determine_repos_to_pull(config)
    temp_exists,        \* the temporary clone workspace is on disk
    cur,                \* the repository block main() is in (0 outside)
    tree,               \* the files of the working copy of repository cur
    patterns,           \* config["<cur>_patterns"]
    changed_files_list, \* the manifest passed for repository cur (<<>>: None)
    docs,               \* the destination tree docs/
    copied,             \* the local variable copied
    total_copied,       \* the local variable total_copied
    written,            \* the files this run wrote, in order
    hist,               \* per repository, what each copy pass did
    exit_status,        \* the exit status of the process (-1 while it runs)
    cleanup_failed,     \* an unlink of the final clean-up raised OSError
    m,                  \* one call of match_file_to_pattern
    g,                  \* one call of clone_or_update_repo
    v                   \* one run of the verifier's main()

vars == <<pc, env, exclude_patterns, repos_to_pull, temp_exists, cur, tree, patterns,
          changed_files_list, docs, copied, total_copied, written, hist, exit_status,
          cleanup_failed, m, g, v>>

NoPass == [ran |-> FALSE, count |-> 0, matched |-> 0, failed |-> {}]

NoHist ==
    [processed |-> FALSE, manifest |-> FALSE, tree |-> {}, patterns |-> <<>>,
     before |-> 0, after |-> 0,
     changed |-> NoPass, static |-> NoPass, pattern |-> NoPass]

NoCall == [path |-> <<>>, source |-> <<>>, exclude |-> <<>>, called |-> FALSE, result |-> FALSE]

NoFetch ==
    [at |-> "none", repo_url |-> <<>>, token |-> <<>>, commit_sha |-> <<>>,
     existed |-> FALSE, copy |-> "none", head |-> "none", log |-> <<>>]

NoVerify ==
    [at |-> "none", files |-> {}, json_valid |-> FALSE, config |-> <<>>,
     mkdocs_text |-> <<>>, docs_files |-> {}, compiles |-> FALSE,
     results |-> <<>>, passed |-> 0, total |-> 0, status |-> -1]

Init ==
    /\ pc = "load_config"
    /\ env \in Envs
    /\ docs \in InitialDocs
    /\ exclude_patterns = <<>>
    /\ repos_to_pull = [r \in Repos |-> TRUE]
    /\ temp_exists = FALSE
    /\ cur = 0
    /\ tree = {}
    /\ patterns = <<>>
    /\ changed_files_list = <<>>
    /\ copied = 0
    /\ total_copied = 0
    /\ written = <<>>
    /\ hist = [r \in Repos |-> NoHist]
    /\ exit_status = -1
    /\ cleanup_failed = FALSE
    /\ m = NoCall
    /\ g = NoFetch
    /\ v = NoVerify

\* what a pass did, for hist
PassOf(st) == [ran |-> TRUE, count |-> st.count, matched |-> st.matched, failed |-> st.failed]

\* load_config: a missing or unreadable config.json ends the process
LoadConfigFails ==
    /\ pc = "load_config"
    /\ pc' = "exited"
    /\ exit_status' = 1
    /\ UNCHANGED <<env, exclude_patterns, repos_to_pull, temp_exists, cur, tree, patterns,
                   changed_files_list, docs, copied, total_copied, written, hist,
                   cleanup_failed, m, g, v>>

LoadConfig ==
    /\ pc = "load_config"
    /\ exclude_patterns' \in ExcludeOptions
    /\ pc' = "determine"
    /\ UNCHANGED <<env, repos_to_pull, temp_exists, cur, tree, patterns,
                   changed_files_list, docs, copied, total_copied, written, hist,
                   exit_status, cleanup_failed, m, g, v>>

\* determine_repos_to_pull: which repositories the trigger names
ReposToPull(trigger_repo) ==
    IF trigger_repo # <<>>
    THEN IF Contains(trigger_repo, K_messaging_core) \/ Contains(trigger_repo, K_messaging_core_us)
         THEN [r \in Repos |-> r = 1]
         ELSE IF Contains(trigger_repo, K_virtual_golf) \/ Contains(trigger_repo, K_virtual_golf_us)
         THEN [r \in Repos |-> r = 2]
         ELSE [r \in Repos |-> TRUE]
    ELSE [r \in Repos |-> TRUE]

DetermineRepos ==
    /\ pc = "determine"
    /\ repos_to_pull' = ReposToPull(Lower(env.trigger_repo))
    /\ pc' = "ensure_temp"
    /\ UNCHANGED <<env, exclude_patterns, temp_exists, cur, tree, patterns,
                   changed_files_list, docs, copied, total_copied, written, hist,
                   exit_status, cleanup_failed, m, g, v>>

\* ensure_temp_dir, then main() enters the block of the first repository
EnsureTempDir ==
    /\ pc = "ensure_temp"
    /\ temp_exists' = TRUE
    /\ cur' = 1
    /\ pc' = "repo"
    /\ UNCHANGED <<env, exclude_patterns, repos_to_pull, tree, patterns,
                   changed_files_list, docs, copied, total_copied, written, hist,
                   exit_status, cleanup_failed, m, g, v>>

use_commit_based == env.trigger_commit # <<>> /\ env.trigger_changed_files # <<>>

\* the name main() looks for in the trigger to hand a repository the manifest
TriggerKey(repo) == IF repo = 1 THEN K_messaging_core ELSE K_virtual_golf

\* changed_files_list of a repository block (<<>> stands for None)
ChangedFilesFor(repo) ==
    IF use_commit_based /\ Contains(Lower(env.trigger_repo), TriggerKey(repo))
    THEN env.trigger_changed_files
    ELSE <<>>

\* where main() goes after the block of repository cur
AfterRepo == IF cur = 1 THEN "repo" ELSE "cleanup_temp"
NextCur == IF cur = 1 THEN 2 ELSE 0

\* the repository is not configured, or the trigger does not name it
SkipRepo ==
    /\ pc = "repo"
    /\ \E configured \in BOOLEAN :
        /\ ~(configured /\ repos_to_pull[cur])
    /\ pc' = AfterRepo
    /\ cur' = NextCur
    /\ UNCHANGED <<env, exclude_patterns, repos_to_pull, temp_exists, tree, patterns,
                   changed_files_list, docs, copied, total_copied, written, hist,
                   exit_status, cleanup_failed, m, g, v>>

\* clone_or_update_repo, the clone failing: clone_repo calls sys.exit(1)
CloneFails ==
    /\ pc = "repo"
    /\ repos_to_pull[cur]
    /\ pc' = "exited"
    /\ exit_status' = 1
    /\ UNCHANGED <<env, exclude_patterns, repos_to_pull, temp_exists, cur, tree, patterns,
                   changed_files_list, docs, copied, total_copied, written, hist,
                   cleanup_failed, m, g, v>>

\* clone_or_update_repo returning the working copy; main() reads the
\* repository's patterns and sets copied = 0
CloneOrUpdate ==
    /\ pc = "repo"
    /\ repos_to_pull[cur]
    /\ tree' \in Trees(cur)
    /\ patterns' \in PatternOptions(cur)
    /\ changed_files_list' = ChangedFilesFor(cur)
    /\ copied' = 0
    /\ hist' = [hist EXCEPT ![cur] = [NoHist EXCEPT !.processed = TRUE,
                                                    !.manifest = ChangedFilesFor(cur) # <<>>,
                                                    !.tree = tree',
                                                    !.patterns = patterns',
                                                    !.before = total_copied,
                                                    !.after = total_copied]]
    /\ pc' = "changed"
    /\ UNCHANGED <<env, exclude_patterns, repos_to_pull, temp_exists, cur, docs,
                   total_copied, written, exit_status, cleanup_failed, m, g, v>>

\* main() leaves the block of repository cur
LeaveRepo ==
    /\ pc' = AfterRepo
    /\ cur' = NextCur
    /\ tree' = {}
    /\ patterns' = <<>>
    /\ changed_files_list' = <<>>

\* no manifest for this repository, or no patterns: the changed-file pass
\* is not run and copied stays 0
NoChangedPass ==
    /\ pc = "changed"
    /\ changed_files_list = <<>> \/ patterns = <<>>
    /\ pc' = "static"
    /\ UNCHANGED <<env, exclude_patterns, repos_to_pull, temp_exists, cur, tree, patterns,
                   changed_files_list, docs, copied, total_copied, written, hist,
                   exit_status, cleanup_failed, m, g, v>>

\* a fall-back decided by the matches rather than by the copies
FallbackNeeded_NoMatch(st) == st.matched = 0

\* `if copied == 0`: the fall-back passes follow the changed-file pass
FallbackNeeded(st) == st.count = 0

\* copied = copy_changed_files(...); total_copied += copied; the fall-back
\* passes follow when copied == 0
CopyChanged ==
    /\ pc = "changed"
    /\ changed_files_list # <<>> /\ patterns # <<>>
    /\ \E bad \in IOFailures(tree) :
        \E st \in {copy_changed_files(docs, cur, tree, changed_files_list, patterns,
                                     exclude_patterns, bad)} :
            /\ docs' = st.docs
            /\ copied' = st.count
            /\ total_copied' = total_copied + st.count
            /\ written' = written \o st.written
            /\ hist' = [hist EXCEPT ![cur].changed = PassOf(st),
                                    ![cur].after = total_copied + st.count]
            /\ IF FallbackNeeded(st)
               THEN /\ pc' = "static"
                    /\ UNCHANGED <<cur, tree, patterns, changed_files_list>>
               ELSE LeaveRepo
    /\ UNCHANGED <<env, exclude_patterns, repos_to_pull, temp_exists, exit_status,
                   cleanup_failed, m, g, v>>

\* the repository has no static mapping
NoStaticPass ==
    /\ pc = "static"
    /\ pc' = "pattern"
    /\ UNCHANGED <<env, exclude_patterns, repos_to_pull, temp_exists, cur, tree, patterns,
                   changed_files_list, docs, copied, total_copied, written, hist,
                   exit_status, cleanup_failed, m, g, v>>

\* copied = copy_files(...); total_copied += copied.  An exception of
\* shutil.copy2 leaves main() and ends the process
CopyStatic ==
    /\ pc = "static"
    /\ \E file_mapping \in PathOptions(cur) \ {<<>>}, bad \in IOFailures(tree) :
        \E st \in {copy_files(docs, cur, tree, file_mapping, bad)} :
            /\ docs' = st.docs
            /\ written' = written \o st.written
            /\ IF st.crashed
               THEN /\ pc' = "crashed"
                    /\ exit_status' = 1
                    /\ hist' = [hist EXCEPT ![cur].static = PassOf(st)]
                    /\ UNCHANGED <<copied, total_copied>>
               ELSE /\ pc' = "pattern"
                    /\ copied' = st.count
                    /\ total_copied' = total_copied + st.count
                    /\ hist' = [hist EXCEPT ![cur].static = PassOf(st),
                                            ![cur].after = total_copied + st.count]
                    /\ UNCHANGED exit_status
    /\ UNCHANGED <<env, exclude_patterns, repos_to_pull, temp_exists, cur, tree, patterns,
                   changed_files_list, cleanup_failed, m, g, v>>

\* the repository has no patterns
NoPatternPass ==
    /\ pc = "pattern"
    /\ patterns = <<>>
    /\ LeaveRepo
    /\ UNCHANGED <<env, exclude_patterns, repos_to_pull, temp_exists, docs, copied,
                   total_copied, written, hist, exit_status, cleanup_failed, m, g, v>>

\* copied = copy_files_by_pattern(...); total_copied += copied.  The
\* unbound matching_files of a first pattern without wildcards whose source
\* is missing raises UnboundLocalError, which ends the process
CopyByPattern ==
    /\ pc = "pattern"
    /\ patterns # <<>>
    /\ \E bad \in IOFailures(tree), order \in WalkOrders :
        \E st \in {copy_files_by_pattern(docs, cur, tree, patterns, exclude_patterns,
                                        order, bad)} :
            /\ docs' = st.docs
            /\ written' = written \o st.written
            /\ IF st.crashed
               THEN /\ pc' = "crashed"
                    /\ exit_status' = 1
                    /\ hist' = [hist EXCEPT ![cur].pattern = PassOf(st)]
                    /\ UNCHANGED <<cur, tree, patterns, changed_files_list, copied,
                                   total_copied>>
               ELSE /\ LeaveRepo
                    /\ copied' = st.count
                    /\ total_copied' = total_copied + st.count
                    /\ hist' = [hist EXCEPT ![cur].pattern = PassOf(st),
                                            ![cur].after = total_copied + st.count]
                    /\ UNCHANGED exit_status
    /\ UNCHANGED <<env, exclude_patterns, repos_to_pull, temp_exists, cleanup_failed, m, g, v>>

\* shutil.rmtree(temp_path), then the summary is printed
CleanupTemp ==
    /\ pc = "cleanup_temp"
    /\ temp_exists' = FALSE
    /\ pc' = "yaml_cleanup"
    /\ UNCHANGED <<env, exclude_patterns, repos_to_pull, cur, tree, patterns,
                   changed_files_list, docs, copied, total_copied, written, hist,
                   exit_status, cleanup_failed, m, g, v>>

\* a clean-up that knows one of the two suffixes only
RawYaml_yml_only(docs_tree) == {p \in DOMAIN docs_tree : Lower(PathSuffix(p)) = YML}

\* the files of the destination tree with a YAML suffix
RawYaml(docs_tree) == {p \in DOMAIN docs_tree : Lower(PathSuffix(p)) \in {YML, YAML}}

\* the final clean-up: every raw YAML file under docs/ is unlinked; an
\* unlink that raises OSError leaves its file.  main() returns
YamlCleanup ==
    /\ pc = "yaml_cleanup"
    /\ \E stuck \in SubsetsUpTo(RawYaml(docs), MaxIOFail) :
        /\ docs' = [p \in (DOMAIN docs) \ (RawYaml(docs) \ stuck) |-> docs[p]]
        /\ cleanup_failed' = (stuck # {})
    /\ pc' = "done"
    /\ exit_status' = 0
    /\ UNCHANGED <<env, exclude_patterns, repos_to_pull, temp_exists, cur, tree, patterns,
                   changed_files_list, copied, total_copied, written, hist, m, g, v>>

Next ==
    \/ LoadConfigFails
    \/ LoadConfig
    \/ DetermineRepos
    \/ EnsureTempDir
    \/ SkipRepo
    \/ CloneFails
    \/ CloneOrUpdate
    \/ NoChangedPass
    \/ CopyChanged
    \/ NoStaticPass
    \/ CopyStatic
    \/ NoPatternPass
    \/ CopyByPattern
    \/ CleanupTemp
    \/ YamlCleanup

Spec == Init /\ [][Next]_vars

(***************************************************************************)
(* The pattern matcher on its own: one call of match_file_to_pattern on a  *)
(* candidate path, a rule source and an exclusion list.                    *)
(***************************************************************************)
DirNames == {N_docs, N_docsx, N_a}
FileNames == {N_a_md, N_b_md, N_readme_txt, F_README_md}

\* the candidate paths with d directories above the file
RECURSIVE PathsAtDepth(_)
PathsAtDepth(d) ==
    IF d = 0 THEN FileNames
    ELSE {dn \o SLASH \o q : dn \in DirNames, q \in PathsAtDepth(d - 1)}

CandidatePaths ==
    UNION {PathsAtDepth(d) : d \in 0..MaxDepth} \cup {P_docs_bs_c_md}

MatchSources ==
    {S_docs_rec_md, S_docs_star_md, S_rec_md, S_docs_dir, F_README_md, F_docs_a_b_md,
     S_docs_rec_a_md, S_star_md, S_multi_rec, S_docs_q_md, S_a_md, F_docs_c_md}

MatchInit ==
    /\ pc = "match"
    /\ m \in [path : CandidatePaths, source : MatchSources, exclude : ExcludeOptions,
              called : {FALSE}, result : {FALSE}]
    /\ env = Env(<<>>, <<>>, <<>>)
    /\ docs = [p \in {} |-> StaleContent]
    /\ exclude_patterns = <<>>
    /\ repos_to_pull = [r \in Repos |-> TRUE]
    /\ temp_exists = FALSE
    /\ cur = 0
    /\ tree = {}
    /\ patterns = <<>>
    /\ changed_files_list = <<>>
    /\ copied = 0
    /\ total_copied = 0
    /\ written = <<>>
    /\ hist = [r \in Repos |-> NoHist]
    /\ exit_status = -1
    /\ cleanup_failed = FALSE
    /\ g = NoFetch
    /\ v = NoVerify

\* match_file_to_pattern(Path(path), pattern_config["source"], exclude_patterns)
MatchCall ==
    /\ pc = "match"
    /\ ~m.called
    /\ m' = [m EXCEPT !.called = TRUE,
                      !.result = match_file_to_pattern(PathStr(m.path), m.source, m.exclude)]
    /\ UNCHANGED <<pc, env, exclude_patterns, repos_to_pull, temp_exists, cur, tree,
                   patterns, changed_files_list, docs, copied, total_copied, written,
                   hist, exit_status, cleanup_failed, g, v>>

MatchNext == MatchCall

MatchSpec == MatchInit /\ [][MatchNext]_vars

(***************************************************************************)
(* The repository fetcher on its own: one call of clone_or_update_repo, a  *)
(* step for each git command it runs.  g.copy is what lies at repo_path    *)
(* ("none", the "stale" copy found there, the "clone" made by this call),  *)
(* g.head is the revision of its working tree, g.log the commands run.     *)
(***************************************************************************)
HTTPS == <<"h", "t", "t", "p", "s", ":", "/", "/">>
AT_SIGN == <<"@">>
U_github == <<"h", "t", "t", "p", "s", ":", "/", "/", "g", "i", "t", "h", "u", "b", ".", "c", "o", "m", "/", "a", "/", "b">>
U_other == <<"h", "t", "t", "p", "s", ":", "/", "/", "g", "i", "t", ".", "e", "x", "/", "a", "/", "b">>
U_ssh == <<"g", "i", "t", "@", "g", "i", "t", "h", "u", "b", ".", "c", "o", "m", ":", "a", "/", "b">>
T_blank == <<" ">>
T_token == <<"t", "k">>

FetchUrls == {U_github, U_other, U_ssh}

\* the token of the environment: none (None or ""), blank, or a token
FetchTokens == {<<>>, T_blank, T_token}

\* clone_repo: the URL handed to git clone
authenticated_url(repo_url, token) ==
    IF token # <<>> /\ Strip(token) # <<>>
    THEN IF StartsWith(repo_url, HTTPS)
         THEN Replace(repo_url, HTTPS, HTTPS \o token \o AT_SIGN)
         ELSE repo_url
    ELSE repo_url

Cmd(cmd, arg, ok) == [cmd |-> cmd, arg |-> arg, ok |-> ok]

FetchInit ==
    /\ pc = "fetch"
    /\ \E existed \in BOOLEAN :
        g \in [at : {"call"}, repo_url : FetchUrls, token : FetchTokens,
               commit_sha : {<<>>, SHA}, existed : {existed},
               copy : {IF existed THEN "stale" ELSE "none"},
               head : {IF existed THEN "stale" ELSE "none"}, log : {<<>>}]
    /\ env = Env(<<>>, <<>>, <<>>)
    /\ docs = [p \in {} |-> StaleContent]
    /\ exclude_patterns = <<>>
    /\ repos_to_pull = [r \in Repos |-> TRUE]
    /\ temp_exists = TRUE
    /\ cur = 0
    /\ tree = {}
    /\ patterns = <<>>
    /\ changed_files_list = <<>>
    /\ copied = 0
    /\ total_copied = 0
    /\ written = <<>>
    /\ hist = [r \in Repos |-> NoHist]
    /\ exit_status = -1
    /\ cleanup_failed = FALSE
    /\ m = NoCall
    /\ v = NoVerify

FetchUnchanged ==
    UNCHANGED <<pc, env, exclude_patterns, repos_to_pull, temp_exists, cur, tree, patterns,
                changed_files_list, docs, copied, total_copied, written, hist,
                cleanup_failed, m, v>>

\* shutil.rmtree(repo_path)
RemoveCopy(gs) ==
    [gs EXCEPT !.copy = "none", !.head = "none",
               !.log = Append(gs.log, Cmd("rmtree", <<>>, TRUE))]

\* the entry of clone_or_update_repo, up to its first git command: with a
\* revision an existing copy is removed and the clone follows; without one
\* an existing copy is pulled, and a missing one cloned
FetchCall ==
    /\ pc = "fetch"
    /\ g.at = "call"
    /\ g' = IF g.commit_sha # <<>>
            THEN [(IF g.copy # "none" THEN RemoveCopy(g) ELSE g) EXCEPT !.at = "clone"]
            ELSE IF g.copy # "none"
            THEN [g EXCEPT !.at = "pull"]
            ELSE [g EXCEPT !.at = "clone"]
    /\ UNCHANGED exit_status
    /\ FetchUnchanged

\* a checkout that ends the process when it fails
AfterCheckout_Fatal(gs, ok) ==
    [gs EXCEPT !.head = IF ok THEN "revision" ELSE gs.head,
               !.at = IF ok THEN "returned" ELSE "exited",
               !.log = Append(gs.log, Cmd("checkout", gs.commit_sha, ok))]

\* git checkout <commit_sha>: a failure is a warning and the working tree
\* stays at the branch tip; repo_path is returned
AfterCheckout(gs, ok) ==
    [gs EXCEPT !.head = IF ok THEN "revision" ELSE gs.head,
               !.at = "returned",
               !.log = Append(gs.log, Cmd("checkout", gs.commit_sha, ok))]

\* clone_repo: git clone -b <branch> --depth 1; a failure is sys.exit(1)
GitClone ==
    /\ pc = "fetch"
    /\ g.at = "clone"
    /\ \E ok \in BOOLEAN :
        /\ ok => g.copy = "none"
        /\ g' = [g EXCEPT
                    !.log = Append(g.log, Cmd("clone", authenticated_url(g.repo_url, g.token), ok)),
                    !.copy = IF ok THEN "clone" ELSE g.copy,
                    !.head = IF ok THEN "tip" ELSE g.head,
                    !.at = IF ~ok THEN "exited"
                           ELSE IF g.commit_sha # <<>> THEN "checkout" ELSE "returned"]
        /\ exit_status' = IF ok THEN exit_status ELSE 1
    /\ FetchUnchanged

GitCheckout ==
    /\ pc = "fetch"
    /\ g.at = "checkout"
    /\ \E ok \in BOOLEAN :
        /\ g' = AfterCheckout(g, ok)
        /\ exit_status' = IF g'.at = "exited" THEN 1 ELSE exit_status
    /\ FetchUnchanged

\* git pull origin <branch> in the existing copy; when it fails the copy is
\* removed and cloned again
GitPull ==
    /\ pc = "fetch"
    /\ g.at = "pull"
    /\ \E ok \in BOOLEAN :
        g' = IF ok
             THEN [g EXCEPT !.log = Append(g.log, Cmd("pull", <<>>, TRUE)),
                            !.head = "tip", !.at = "returned"]
             ELSE [RemoveCopy([g EXCEPT !.log = Append(g.log, Cmd("pull", <<>>, FALSE))])
                        EXCEPT !.at = "clone"]
    /\ UNCHANGED exit_status
    /\ FetchUnchanged

FetchNext ==
    \/ FetchCall
    \/ GitClone
    \/ GitCheckout
    \/ GitPull

FetchSpec == FetchInit /\ [][FetchNext]_vars

(***************************************************************************)
(* The setup verifier: one run of verify_setup.main(), a step for each of  *)
(* its six sections and one for the summary.  v.files are the files that   *)
(* exist under the base directory, v.docs_files the pages under docs/,     *)
(* v.config the parsed config.json (a function from field names to the     *)
(* texts of their values), v.results the list of the checks' results.      *)
(***************************************************************************)
MaxMissing == 1

RequiredFiles ==
    <<"mkdocs.yml", "requirements.txt", "scripts/config.json", "scripts/pull_content.py",
      ".github/workflows/docs.yml", ".gitignore">>

RequiredDocs ==
    <<"index.md", "getting-started/overview.md", "getting-started/setup.md",
      "engineering/index.md", "operations/index.md", "asyncapi/index.md">>

Range(s) == {s[i] : i \in 1..Len(s)}

YOUR_ORG == <<"y", "o", "u", "r", "-", "o", "r", "g">>
V_placeholder == <<"y", "o", "u", "r", "-", "o", "r", "g", "/", "x">>
V_acme == <<"a", "c", "m", "e", "/", "x">>
V_site == <<"s", "i", "t", "e">>

\* the fields load_config of the sync tool looks for
SyncFields == {"messaging_core_repo", "virtual_golf_game_api_repo"}

\* the fields check_config_placeholders requires
required_fields == <<"engineering_repo", "operations_repo", "engineering_paths", "operations_paths">>

ConfigOf(fields, placeholders) ==
    [f \in fields |-> IF f \in placeholders THEN V_placeholder ELSE V_acme]

ConfigOptions ==
    {ConfigOf({}, {}),
     ConfigOf(SyncFields, {}),
     ConfigOf(SyncFields, {"messaging_core_repo"}),
     ConfigOf({"messaging_core_repo"}, {}),
     ConfigOf(Range(required_fields), {}),
     ConfigOf(Range(required_fields), {"engineering_repo"}),
     ConfigOf(Range(required_fields), {"operations_repo"}),
     ConfigOf(Range(required_fields) \ {"operations_paths"}, {}),
     ConfigOf(SyncFields \cup Range(required_fields), {})}

\* load_config of the sync tool: the fields it warns about
load_config_warnings(config) == {f \in SyncFields : f \notin DOMAIN config}

\* config.get(field, "")
ConfigGet(config, field) == IF field \in DOMAIN config THEN config[field] ELSE <<>>

check_file_exists(files, filepath) == filepath \in files

\* open() or json.load() raising is caught and gives False
check_json_valid(files, json_valid) ==
    "scripts/config.json" \in files /\ json_valid

check_config_placeholders(files, json_valid, config) ==
    IF ~("scripts/config.json" \in files /\ json_valid) THEN FALSE
    ELSE LET issues ==
                (IF Contains(ConfigGet(config, "engineering_repo"), YOUR_ORG)
                 THEN {"engineering_repo placeholder"} ELSE {})
                \cup (IF Contains(ConfigGet(config, "operations_repo"), YOUR_ORG)
                      THEN {"operations_repo placeholder"} ELSE {})
                \cup {required_fields[i] : i \in {j \in 1..Len(required_fields) :
                                                    required_fields[j] \notin DOMAIN config}}
         IN  issues = {}

check_mkdocs_placeholders(files, mkdocs_text) ==
    "mkdocs.yml" \in files /\ ~Contains(mkdocs_text, YOUR_ORG)

RECURSIVE DocsLoop(_, _, _)
DocsLoop(docs_files, all_exist, i) ==
    IF i > Len(RequiredDocs) THEN all_exist
    ELSE DocsLoop(docs_files, IF RequiredDocs[i] \in docs_files THEN all_exist ELSE FALSE, i + 1)

check_docs_structure(docs_files) == DocsLoop(docs_files, TRUE, 1)

\* py_compile.compile(..., doraise=True): any exception gives False
check_syntax(files, compiles) ==
    "scripts/pull_content.py" \in files /\ compiles

\* sum(results)
RECURSIVE Sum(_)
Sum(results) ==
    IF results = <<>> THEN 0
    ELSE (IF Head(results) THEN 1 ELSE 0) + Sum(Tail(results))

VerifyInit ==
    /\ pc = "verify"
    /\ \E missing \in SubsetsUpTo(Range(RequiredFiles), MaxMissing),
          missing_docs \in SubsetsUpTo(Range(RequiredDocs), MaxMissing),
          json_valid \in BOOLEAN :
        v \in [at : {"files"},
               files : {Range(RequiredFiles) \ missing},
               json_valid : {json_valid},
               config : IF json_valid THEN ConfigOptions ELSE {ConfigOf({}, {})},
               mkdocs_text : {V_site, V_placeholder},
               docs_files : {Range(RequiredDocs) \ missing_docs},
               compiles : BOOLEAN,
               results : {<<>>}, passed : {0}, total : {0}, status : {-1}]
    /\ env = Env(<<>>, <<>>, <<>>)
    /\ docs = [p \in {} |-> StaleContent]
    /\ exclude_patterns = <<>>
    /\ repos_to_pull = [r \in Repos |-> TRUE]
    /\ temp_exists = FALSE
    /\ cur = 0
    /\ tree = {}
    /\ patterns = <<>>
    /\ changed_files_list = <<>>
    /\ copied = 0
    /\ total_copied = 0
    /\ written = <<>>
    /\ hist = [r \in Repos |-> NoHist]
    /\ exit_status = -1
    /\ cleanup_failed = FALSE
    /\ m = NoCall
    /\ g = NoFetch

VerifyUnchanged ==
    UNCHANGED <<pc, env, exclude_patterns, repos_to_pull, temp_exists, cur, tree, patterns,
                changed_files_list, docs, copied, total_copied, written, hist,
                cleanup_failed, m, g>>

\* results.append(...) of one section, and the section that follows
Section(at, results, next) ==
    /\ pc = "verify"
    /\ v.at = at
    /\ v' = [v EXCEPT !.results = v.results \o results, !.at = next]
    /\ UNCHANGED exit_status
    /\ VerifyUnchanged

\* [1/6] the six required files
CheckFiles ==
    Section("files",
            [i \in 1..Len(RequiredFiles) |-> check_file_exists(v.files, RequiredFiles[i])],
            "json")

\* [2/6]
CheckJson ==
    Section("json", <<check_json_valid(v.files, v.json_valid)>>, "config")

\* [3/6]
CheckConfig ==
    Section("config", <<check_config_placeholders(v.files, v.json_valid, v.config)>>, "mkdocs")

\* [4/6]
CheckMkdocs ==
    Section("mkdocs", <<check_mkdocs_placeholders(v.files, v.mkdocs_text)>>, "docs")

\* [5/6]
CheckDocs ==
    Section("docs", <<check_docs_structure(v.docs_files)>>, "syntax")

\* [6/6]
CheckSyntax ==
    Section("syntax", <<check_syntax(v.files, v.compiles)>>, "summary")

\* a verifier that is content with one passed check
ReturnValue_AnyPassed(passed, total) == IF passed > 0 THEN 0 ELSE 1

\* the value main() returns
ReturnValue(passed, total) == IF passed = total THEN 0 ELSE 1

\* the summary; sys.exit(main())
Summary ==
    /\ pc = "verify"
    /\ v.at = "summary"
    /\ v' = [v EXCEPT !.passed = Sum(v.results),
                      !.total = Len(v.results),
                      !.status = ReturnValue(Sum(v.results), Len(v.results)),
                      !.at = "returned"]
    /\ exit_status' = v'.status
    /\ VerifyUnchanged

VerifyNext ==
    \/ CheckFiles
    \/ CheckJson
    \/ CheckConfig
    \/ CheckMkdocs
    \/ CheckDocs
    \/ CheckSyntax
    \/ Summary

VerifySpec == VerifyInit /\ [][VerifyNext]_vars

(***************************************************************************)
(* The two selecting passes on their own: copy_changed_files and           *)
(* copy_files_by_pattern called, in either order, on one working copy, one *)
(* rule, one exclusion list and one manifest.  The manifest lists every    *)
(* file of the working copy, or names paths that leave its root: a path    *)
(* with ".." components and an absolute path, both naming existing files.  *)
(***************************************************************************)
F_up_config_json == <<".", ".", "/", ".", ".", "/", "c", "o", "n", "f", "i", "g", ".", "j", "s", "o", "n">>
F_abs_yaml == <<"/", "s", "r", "v", "/", "a", ".", "y", "a", "m", "l">>
F_abs_md == <<"/", "s", "r", "v", "/", "a", ".", "m", "d">>
S_rec_json == <<"*", "*", "/", "*", ".", "j", "s", "o", "n">>

\* the files outside the working copy that the manifest paths reach
OutsideFiles == {F_up_config_json, F_abs_yaml, F_abs_md}

PassRules ==
    {<<Rule(S_docs_rec_md, D_guides, FALSE)>>,
     <<Rule(S_docs_star_md, D_guides, FALSE)>>,
     <<Rule(S_star_yaml, D_api, TRUE)>>,
     <<Rule(S_docs_dir, <<>>, FALSE)>>,
     <<Rule(S_rec_md, D_guides, FALSE)>>,
     <<Rule(S_rec_json, <<>>, FALSE)>>,
     <<Rule(S_rec_json, D_guides, FALSE)>>,
     <<Rule(F_docs_a_b_md, D_guides, FALSE)>>}

\* the manifest that lists every file of the working copy
FullManifest(files) ==
    Join(SelectSeq(AllFiles, LAMBDA f : f \in files), COMMA)

PassManifests(files) ==
    {FullManifest(files), F_up_config_json, F_abs_yaml, F_abs_md,
     F_docs_a_b_md \o COMMA \o F_up_config_json}

PassInit ==
    /\ pc = "pass"
    /\ cur = 1
    /\ tree \in Trees(1)
    /\ patterns \in PassRules
    /\ exclude_patterns \in ExcludeOptions
    /\ changed_files_list \in PassManifests(tree)
    /\ docs = [p \in {} |-> StaleContent]
    /\ env = Env(<<>>, <<>>, <<>>)
    /\ repos_to_pull = [r \in Repos |-> TRUE]
    /\ temp_exists = TRUE
    /\ copied = 0
    /\ total_copied = 0
    /\ written = <<>>
    /\ hist = [r \in Repos |-> NoHist]
    /\ exit_status = -1
    /\ cleanup_failed = FALSE
    /\ m = NoCall
    /\ g = NoFetch
    /\ v = NoVerify

\* copied = copy_changed_files(...)
PassChanged ==
    /\ pc = "pass"
    /\ ~hist[cur].changed.ran
    /\ \E st \in {copy_changed_files(docs, cur, tree \cup OutsideFiles, changed_files_list,
                                    patterns, exclude_patterns, {})} :
        /\ docs' = st.docs
        /\ copied' = st.count
        /\ written' = written \o st.written
        /\ hist' = [hist EXCEPT ![cur].changed = PassOf(st)]
    /\ UNCHANGED <<pc, env, exclude_patterns, repos_to_pull, temp_exists, cur, tree, patterns,
                   changed_files_list, total_copied, exit_status, cleanup_failed, m, g, v>>

\* copied = copy_files_by_pattern(...)
PassWalk ==
    /\ pc = "pass"
    /\ ~hist[cur].pattern.ran
    /\ \E order \in WalkOrders :
        \E st \in {copy_files_by_pattern(docs, cur, tree, patterns, exclude_patterns,
                                        order, {})} :
            /\ docs' = st.docs
            /\ written' = written \o st.written
            /\ hist' = [hist EXCEPT ![cur].pattern = PassOf(st)]
            /\ IF st.crashed
               THEN pc' = "crashed" /\ exit_status' = 1 /\ UNCHANGED copied
               ELSE copied' = st.count /\ UNCHANGED <<pc, exit_status>>
    /\ UNCHANGED <<env, exclude_patterns, repos_to_pull, temp_exists, cur, tree, patterns,
                   changed_files_list, total_copied, cleanup_failed, m, g, v>>

PassNext ==
    \/ PassChanged
    \/ PassWalk

PassSpec == PassInit /\ [][PassNext]_vars

(***************************************************************************)
(* Properties.                                                             *)
(***************************************************************************)

\* main() has left the block of repository r (no exit, no exception in it)
Finished(r) ==
    /\ hist[r].processed
    /\ cur # r

\* the entries of the log written by one pass of repository r
WrittenBy(r, pass) ==
    SelectSeq(written, LAMBDA w : w.repo = r /\ w.pass = pass)

\* C1: a source file matching an entry of exclude_patterns is never written
\* to the destination tree, by any of the three copy functions.
C1_ExcludedNeverCopied ==
    \A i \in 1..Len(written) :
        ~should_exclude_file(written[i].src, exclude_patterns)

\* C2: a selected source file with a YAML suffix is never copied verbatim:
\* what is written is the wrapper document at <destination>.md.
C2_YamlAlwaysWrapped ==
    \A i \in 1..Len(written) :
        is_yaml_file(written[i].src) =>
            /\ written[i].kind = "wrapper"
            /\ written[i].target = written[i].dest_file \o MD
            /\ written[i].target \in DOMAIN docs =>
                   docs[written[i].target].kind # "raw"

\* C3 (as the code has it): when main() returns normally and no unlink of
\* the final clean-up failed, no file with a YAML suffix is left under the
\* destination tree, whether this run wrote it or an earlier run left it.
C3_NoYamlAfterNormalReturn ==
    (pc = "done" /\ ~cleanup_failed) =>
        \A p \in DOMAIN docs : ~is_yaml_file(p)

\* C3 witness: a run that wrote a raw YAML file returned normally without it
C3_Witness ==
    /\ pc = "done"
    /\ ~cleanup_failed
    /\ \E i \in 1..Len(written) :
        written[i].kind = "raw" /\ is_yaml_file(written[i].target)

\* C3 as stated: whatever the outcome of the run (normal return, exit after
\* a failed clone or a bad configuration, uncaught exception), the final
\* state has no YAML file under the destination tree when no unlink failed.
C3_NoYamlWhateverOutcome ==
    (pc \in {"done", "exited", "crashed"} /\ ~cleanup_failed) =>
        \A p \in DOMAIN docs : ~is_yaml_file(p)

C5_Destination(dest_base, relative_path) ==
    IF dest_base = <<>> \/ EndsWith(dest_base, SLASH)
    THEN PathJoin(PathJoin(DOCS, dest_base), relative_path)
    ELSE PathJoin(DOCS, dest_base)

\* C5: in the changed-file pass and in the tree walk alike, a destination
\* that is empty or ends with "/" receives the file under its path relative
\* to the repository root; any other destination is the exact target.
C5_DestinationInBothPasses ==
    \A i \in 1..Len(written) :
        written[i].pass \in {"changed", "pattern"} =>
            written[i].dest_file = C5_Destination(written[i].dest_base, written[i].src)

C6_Tree == {F_docs_a_b_md, F_docs_readme_txt}
C6_Patterns == <<Rule(S_docs_rec_md, D_guides, FALSE)>>
C6_Manifest == F_docs_a_b_md \o COMMA \o F_docs_readme_txt
G_guides_b_md == <<"d", "o", "c", "s", "/", "g", "u", "i", "d", "e", "s", "/", "b", ".", "m", "d">>
G_guides_docs_a_b_md == <<"d", "o", "c", "s", "/", "g", "u", "i", "d", "e", "s", "/", "d", "o", "c", "s", "/", "a", "/", "b", ".", "m", "d">>
G_guides_a_b_md == <<"d", "o", "c", "s", "/", "g", "u", "i", "d", "e", "s", "/", "a", "/", "b", ".", "m", "d">>

\* the example of C6: the single rule docs/**/*.md -> guides/ on a tree
\* of docs/a/b.md and docs/readme.txt, no exclusion pattern, and the pass
\* named having run without a failed copy
C6_Case(pass) ==
    /\ hist[1].processed
    /\ hist[1].tree = C6_Tree
    /\ hist[1].patterns = C6_Patterns
    /\ exclude_patterns = <<>>
    /\ hist[1][pass].ran
    /\ hist[1][pass].failed = {}
    /\ pass = "changed" => env.trigger_changed_files = C6_Manifest

\* the pass copied docs/a/b.md and nothing else, to target, with count 1
C6_CopiesOnly(pass, target) ==
    /\ hist[1][pass].count = 1
    /\ Len(WrittenBy(1, pass)) = 1
    /\ WrittenBy(1, pass)[1].src = F_docs_a_b_md
    /\ WrittenBy(1, pass)[1].target = target
    /\ WrittenBy(1, pass)[1].kind = "raw"

CandidateText ==
    [i \in 1..Len(PathStr(m.path)) |->
        IF PathStr(m.path)[i] = "\\" THEN "/" ELSE PathStr(m.path)[i]]

\* a source of the form prefix/**/suffix: one "**", a prefix before "/**/"
\* and a suffix of one component after it
C7_Form(source) ==
    LET parts == Split(source, STARSTAR)
    IN  /\ Len(parts) = 2
        /\ Len(parts[1]) > 1 /\ EndsWith(parts[1], SLASH)
        /\ Len(parts[2]) > 1 /\ StartsWith(parts[2], SLASH)
        /\ ~HasChar(Drop(parts[2], 1), "/")

C7_Prefix(source) == Split(source, STARSTAR)[1]
C7_Suffix(source) == Drop(Split(source, STARSTAR)[2], 1)

\* C7: for a source prefix/**/suffix and a candidate that no exclusion
\* matches, the matcher answers true exactly when the candidate starts with
\* "prefix/" and its final component satisfies suffix.
C7_RecursiveMatchIffUnderPrefix ==
    (m.called /\ C7_Form(m.source)
       /\ ~should_exclude_file(PathStr(m.path), m.exclude)) =>
        (m.result <=>
            /\ StartsWith(CandidateText, C7_Prefix(m.source))
            /\ fnmatch(PathName(m.path), C7_Suffix(m.source)))

\* C8: for a source with "*" or "?" and without "**", a match means that
\* the candidate's final component satisfies the final segment of the
\* source and that the candidate lies directly in the source's directory.
C8_GlobMatchesDirectChildOnly ==
    (m.called /\ (HasChar(m.source, "*") \/ HasChar(m.source, "?"))
       /\ ~Contains(m.source, STARSTAR) /\ m.result) =>
        /\ fnmatch(PathName(m.path), PathName(m.source))
        /\ PathParent(PathStr(m.path)) = PathParent(PathStr(m.source))

\* a call of the matcher with a source that has neither "*" nor "?" and a
\* candidate that no exclusion matches
C9_Case ==
    /\ m.called
    /\ ~HasChar(m.source, "*") /\ ~HasChar(m.source, "?")
    /\ ~should_exclude_file(PathStr(m.path), m.exclude)


C10_Listed ==
    LET parsed == ParseChangedFiles(env.trigger_changed_files)
    IN  {PathStr(SlashNorm(parsed[i])) : i \in 1..Len(parsed)}

\* C10: the changed-file pass writes only files the manifest lists; a listed
\* path missing from the source tree is skipped: nothing is written for it,
\* no exception leaves the pass, and every other listed path that exists,
\* matches a pattern and can be copied is still copied.
C10_ManifestPassOnlyListedPaths ==
    \A r \in Repos :
        hist[r].changed.ran =>
            /\ \A i \in 1..Len(written) :
                (written[i].repo = r /\ written[i].pass = "changed") =>
                    /\ written[i].src \in C10_Listed
                    /\ ExistsIn(hist[r].tree, written[i].src)
            /\ \A f \in C10_Listed :
                (/\ f \in hist[r].tree
                 /\ f \notin hist[r].changed.failed
                 /\ FirstMatch(f, hist[r].patterns, exclude_patterns, 1) # 0)
                    => \E i \in 1..Len(written) :
                         /\ written[i].repo = r
                         /\ written[i].pass = "changed"
                         /\ written[i].src = f
            /\ hist[r].changed.count = Len(WrittenBy(r, "changed"))
            /\ ~(pc = "crashed" /\ cur = r /\ ~hist[r].static.ran /\ ~hist[r].pattern.ran)

\* C10 witness: a manifest listing a missing path before docs/a/b.md, and
\* docs/a/b.md copied by the changed-file pass
C10_Witness ==
    /\ hist[1].changed.ran
    /\ env.trigger_changed_files = F_gone_md \o COMMA \o F_docs_a_b_md
    /\ F_gone_md \notin hist[1].tree
    /\ \E i \in 1..Len(written) :
        written[i].pass = "changed" /\ written[i].src = F_docs_a_b_md

\* the last copy pass that ran in the block of repository r
LastPass(r) ==
    IF hist[r].pattern.ran THEN hist[r].pattern
    ELSE IF hist[r].static.ran THEN hist[r].static
    ELSE hist[r].changed

\* C11: in each of the three copy paths (changed-file pass, tree walk, static
\* mappings) an I/O failure on one file does not end the run: no run stops
\* in a pass in which the copy of a file of the clone failed, and each pass
\* counts exactly the files it wrote.
C11_CopyFailureNeverEndsRun ==
    \A r \in Repos :
        /\ (pc = "crashed" /\ cur = r) => LastPass(r).failed \cap hist[r].tree = {}
        /\ hist[r].changed.count = Len(WrittenBy(r, "changed"))
        /\ hist[r].pattern.count = Len(WrittenBy(r, "pattern"))
        /\ (hist[r].static.ran /\ ~(pc = "crashed" /\ cur = r))
                => hist[r].static.count = Len(WrittenBy(r, "static"))

\* C12: the run ends early with a non-zero exit status only when the
\* configuration is missing or invalid or a clone fails (the two sys.exit(1)
\* of load_config and clone_repo); every other failure lets main() reach the
\* summary and return, with exit status 0.
C12_NonZeroExitOnlyConfigOrClone ==
    /\ (exit_status # -1 /\ exit_status # 0) => pc = "exited"
    /\ pc = "done" => exit_status = 0

\* the trigger names repository r in a form determine_repos_to_pull
\* recognises (the hyphenated or the underscore spelling)
C13_Named(r) ==
    LET t == Lower(env.trigger_repo)
        first == Contains(t, K_messaging_core) \/ Contains(t, K_messaging_core_us)
        second == Contains(t, K_virtual_golf) \/ Contains(t, K_virtual_golf_us)
    IN  IF r = 1 THEN first ELSE ~first /\ second

\* C13: a trigger that names one repository puts only that repository in
\* scope, any other trigger both; a repository in scope that the trigger
\* names is handed the revision and the manifest when both are present and
\* is synchronized by the changed-file pass, and any other repository in
\* scope is synchronized by the full-pattern pass.
C13_ScopeAndMode ==
    /\ (pc \notin {"load_config", "determine"} /\ ~(pc = "exited" /\ cur = 0)) =>
            \A r \in Repos :
                repos_to_pull[r] <=> (C13_Named(r) \/ \A q \in Repos : ~C13_Named(q))
    /\ \A r \in Repos :
        /\ hist[r].processed => repos_to_pull[r]
        /\ hist[r].processed =>
                (hist[r].manifest <=> (C13_Named(r) /\ use_commit_based))
        /\ (Finished(r) /\ hist[r].patterns # <<>>) =>
                IF C13_Named(r) /\ use_commit_based
                THEN hist[r].changed.ran
                ELSE ~hist[r].changed.ran /\ hist[r].pattern.ran

\* C14: a run that has created the temporary clone workspace has removed it
\* when the process exits, on every path: the normal return and the early
\* exit after a failed clone of the first or of the second repository.
C14_WorkspaceRemovedAtExit ==
    exit_status # -1 => ~temp_exists

\* the git commands and removals of the call, in order
C15_Cmds == [i \in 1..Len(g.log) |-> g.log[i].cmd]

\* C15: clone_or_update_repo with a revision removes an existing copy, then
\* clones the branch, then attempts the checkout; a failed checkout does not
\* end the process and the copy returned is at the branch tip.  Without a
\* revision an existing copy is pulled first, and removed and cloned again
\* only when the pull has failed.  Only a failed clone ends the process.
C15_FetchAtRevisionOrTip ==
    /\ (g.commit_sha # <<>> /\ g.at = "returned") =>
            /\ C15_Cmds = (IF g.existed THEN <<"rmtree">> ELSE <<>>) \o <<"clone", "checkout">>
            /\ g.log[Len(g.log)].arg = g.commit_sha
            /\ g.copy = "clone"
            /\ g.head = IF g.log[Len(g.log)].ok THEN "revision" ELSE "tip"
    /\ (g.commit_sha = <<>> /\ g.existed /\ g.at \in {"clone", "returned", "exited"}) =>
            /\ g.log[1].cmd = "pull"
            /\ g.log[1].ok => (C15_Cmds = <<"pull">> /\ g.at = "returned" /\ g.copy = "stale")
            /\ (~g.log[1].ok /\ g.at = "returned") =>
                    (C15_Cmds = <<"pull", "rmtree", "clone">> /\ g.copy = "clone")
    /\ (g.commit_sha = <<>> /\ ~g.existed /\ g.at = "returned") => C15_Cmds = <<"clone">>
    /\ g.at = "exited" =>
            /\ g.log[Len(g.log)].cmd = "clone"
            /\ ~g.log[Len(g.log)].ok
            /\ exit_status = 1
    /\ (pc = "fetch" /\ g.at # "exited") => exit_status = -1

\* a call with a revision and an existing copy whose checkout failed: the
\* fresh clone is returned at the branch tip
C15_Witness ==
    /\ g.at = "returned"
    /\ g.commit_sha # <<>>
    /\ g.existed
    /\ g.copy = "clone"
    /\ g.head = "tip"
    /\ ~g.log[Len(g.log)].ok

\* what each of the ten checks has to report, from the files alone
C16_Expected ==
    [i \in 1..Len(RequiredFiles) |-> RequiredFiles[i] \in v.files]
    \o << "scripts/config.json" \in v.files /\ v.json_valid,
          /\ "scripts/config.json" \in v.files
          /\ v.json_valid
          /\ Range(required_fields) \subseteq DOMAIN v.config
          /\ \A f \in {"engineering_repo", "operations_repo"} \cap DOMAIN v.config :
                ~Contains(v.config[f], YOUR_ORG),
          "mkdocs.yml" \in v.files /\ ~Contains(v.mkdocs_text, YOUR_ORG),
          Range(RequiredDocs) \subseteq v.docs_files,
          "scripts/pull_content.py" \in v.files /\ v.compiles >>

\* C16: the verifier's main returns 0 exactly when every check returned
\* true and 1 otherwise; the number it reports as passed is the number of
\* true checks; each check's result is decided by the files alone, whatever
\* the checks before it returned.
C16_VerifierResult ==
    /\ pc = "verify" =>
            v.results = SubSeq(C16_Expected, 1, Len(v.results))
    /\ v.at = "returned" =>
            /\ Len(v.results) = Len(C16_Expected)
            /\ v.total = Len(v.results)
            /\ v.passed = Cardinality({i \in 1..Len(v.results) : v.results[i]})
            /\ v.status \in {0, 1}
            /\ v.status = 0 <=> \A i \in 1..Len(v.results) : v.results[i]
            /\ exit_status = v.status

\* a run in which some checks passed and three failed has returned 1
C16_Witness ==
    /\ v.at = "returned"
    /\ v.status = 1
    /\ v.passed = v.total - 3
    /\ v.results[Len(v.results)]

\* C20: a configuration that load_config of the sync tool accepts without a
\* missing-field warning and that holds no placeholder text passes the
\* verifier's check_config_placeholders.
C20_SyncConfigPassesVerifier ==
    (/\ pc = "verify"
     /\ Len(v.results) > Len(RequiredFiles) + 1
     /\ "scripts/config.json" \in v.files
     /\ v.json_valid
     /\ load_config_warnings(v.config) = {}
     /\ \A f \in DOMAIN v.config : ~Contains(v.config[f], YOUR_ORG))
        => v.results[Len(RequiredFiles) + 2]

\* the file p names lies below directory d
C17_Under(p, d) == StartsWith(Resolve(p), d \o SLASH)

\* C17: whatever the manifest (paths with ".." components or absolute paths
\* included) and the rule, every file copy_changed_files reads lies below
\* the root of the working copy and every file it writes lies below docs/.
C17_ChangedPassContained ==
    \A i \in 1..Len(written) :
        written[i].pass = "changed" =>
            /\ C17_Under(PathJoin(RepoPath(written[i].repo), written[i].src),
                         RepoPath(written[i].repo))
            /\ C17_Under(written[i].target, DOCS)

\* the files a pass selected: those it wrote and those whose copy failed
C18_Selected(pass) ==
    {WrittenBy(cur, pass)[i].src : i \in 1..Len(WrittenBy(cur, pass))}
    \cup hist[cur][pass].failed

\* C18: for a rule, the files the tree walk selects are the existing files
\* for which match_file_to_pattern is true, so that a manifest listing
\* every file of the working copy selects the same files as the walk,
\* exclusions included.
C18_WalkAgreesWithMatcher ==
    (pc = "pass" /\ hist[cur].pattern.ran) =>
        /\ C18_Selected("pattern") =
                {f \in tree : match_file_to_pattern(f, patterns[1].source, exclude_patterns)}
        /\ (hist[cur].changed.ran /\ changed_files_list = FullManifest(tree)) =>
                C18_Selected("pattern") = C18_Selected("changed")

\* C19: after a run that returned, the total reported as copied is the
\* number of distinct destination files this run wrote; no two copy steps
\* wrote the same destination path; and no file counted as copied has been
\* removed by the final clean-up.
C19_CountFaithful ==
    pc = "done" =>
        /\ total_copied = Cardinality({written[i].target : i \in 1..Len(written)})
        /\ \A i, j \in 1..Len(written) : i # j => written[i].target # written[j].target
        /\ \A i \in 1..Len(written) : written[i].target \in DOMAIN docs

====
